---- MODULE Spec2Model ----
(***************************************************************************)
(* Model of the drape_frontend animation scheduler                         *)
(* (src/drape_frontend/animation_system.cpp): Interpolator timing, the     *)
(* mixing predicate Animation::CouldBeMixedWith, FollowAnimation,          *)
(* ParallelAnimation, SequenceAnimation and the AnimationSystem operations *)
(* AddAnimation, PushAnimation, Advance, GetProperty, AnimationExists and  *)
(* SaveAnimationResult.                                                    *)
(*                                                                         *)
(* Time is counted in integer ticks.  An animation queued in the scheduler *)
(* is a record carrying its declared objects and per-object properties,    *)
(* its two flags and one interpolator (elapsed time and duration).         *)
(*                                                                         *)
(* Spec and FairSpec run the scheduler.  MixSpec, InterpSpec, FollowSpec,  *)
(* SeqSpec and ParSpec each run one object of a class on its own, held in  *)
(* the variable unit, while the scheduler variables stay as constructed.   *)
(***************************************************************************)
EXTENDS Integers, Sequences, FiniteSets, TLC

\* ------------------------------------------------------------------ bounds
MaxDt       == 2   \* Advance is called with dt in 1..MaxDt ticks
MaxAdds     == 3   \* AddAnimation is called at most this many times
MaxDuration == 2   \* Interpolator(duration, delay) is built with duration in 0..MaxDuration
MaxDelay    == 1   \* and delay in 0..MaxDelay
MaxPos      == 4   \* positions are the screen points 0..MaxPos of a line
MaxAngle    == 1   \* angles are 0..MaxAngle, in units of pi/4
MaxStages   == 3   \* animations added to one SequenceAnimation
MaxMembers  == 3   \* animations added to one ParallelAnimation

\* Animation::TObject and Animation::TProperty values used by the model.
MapPlane   == "MapPlane"
Selection  == "Selection"
Position   == "Position"
Angle      == "Angle"
Scale      == "Scale"
Objects    == {MapPlane, Selection}
Properties == {Position, Angle}
Keys       == Objects \X Properties
Dts        == 1..MaxDt
AnimIds    == 1..MaxAdds

NaN        == <<0, 0>>   \* the result of 0.0 / 0.0

VARIABLES
  chain,     \* m_animationChain: sequence of groups, a group is a sequence of animations
  cache,     \* m_propertyCache: function from a set of keys to values
  nextId,    \* identity of the next animation object handed to AddAnimation
  last,      \* the last call made on the scheduler, its arguments and result
  deferred,  \* pairs <<a, b>>: AddAnimation of b rejected a group on non-interruptible a
  unit       \* one object used on its own (a pair of animations, an interpolator,
             \* a FollowAnimation, a SequenceAnimation or a ParallelAnimation)

vars == <<chain, cache, nextId, last, deferred, unit>>

\* ------------------------------------------------------------ interpolator
Max(a, b) == IF a >= b THEN a ELSE b
Min(a, b) == IF a <= b THEN a ELSE b

RECURSIVE GCD(_, _)
GCD(a, b) == IF b = 0 THEN a ELSE GCD(b, a % b)

\* A non-negative rational num/den in lowest terms.
Ratio(num, den) == LET g == GCD(num, den) IN <<num \div g, den \div g>>

IsFinished(elapsedTime, duration, delay) == elapsedTime > (duration + delay)

GetT(elapsedTime, duration, delay) ==
  IF IsFinished(elapsedTime, duration, delay) THEN <<1, 1>>
  ELSE IF duration = 0 THEN NaN
  ELSE Ratio(Max(elapsedTime - delay, 0), duration)

\* a <= b for rationals <<num, den>> with positive denominators.
Leq(a, b) == a[1] * b[2] <= b[1] * a[2]

Abs(x) == IF x < 0 THEN 0 - x ELSE x

\* The interpolators built from positions, angles and scales count time in
\* ticks of 1/140 s.  A speed is a rational <<pixels, ticks>>.
CalcAnimSpeedDuration(pxDiff, pxSpeed) ==
  IF pxDiff = 0 THEN 0
  ELSE (Abs(pxDiff) * pxSpeed[2]) \div pxSpeed[1]

\* The shorter side of convertor.PixelRect(), in pixels.
ScreenSides == {4, 20}
Positions == 0..MaxPos

\* kMinMoveDuration = 0.2 s is 28 ticks, kMinSpeedScalar = 0.2 = 1/5, and
\* kMaxSpeedScalar * minSize = 7 * minSize pixels per second is minSize
\* pixels per 20 ticks.
GetMoveDuration(startPosition, endPosition, minSize) ==
  LET pixelLength == Abs(endPosition - startPosition) IN
  IF pixelLength = 0 THEN 0
  ELSE IF 5 * pixelLength < minSize THEN 28
  ELSE CalcAnimSpeedDuration(pixelLength, <<minSize, 20>>)

Interpolator(duration, delay) ==
  [ present |-> TRUE, elapsedTime |-> 0, duration |-> duration, delay |-> delay ]

PositionInterpolator(delay, startPosition, endPosition, minSize) ==
  Interpolator(GetMoveDuration(startPosition, endPosition, minSize), delay)

\* An angle is counted in units of pi/4, which takes 0.5 s, 70 ticks.
GetRotateDuration(startAngle, endAngle) == 70 * Abs(endAngle - startAngle)

AngleInterpolator(delay, startAngle, endAngle) ==
  Interpolator(GetRotateDuration(startAngle, endAngle), delay)

\* Scales are powers of two, so that the ratio of two scales is an integer.
\* kPixelSpeed = 2.0 / 0.3 per second is 1 per 21 ticks.
Scales == {1, 2, 4}

GetScaleDuration(startScale, endScale) ==
  LET lo == Min(startScale, endScale)
      hi == Max(startScale, endScale)
  IN CalcAnimSpeedDuration(hi \div lo, <<1, 21>>)

ScaleInterpolator(delay, startScale, endScale) ==
  Interpolator(GetScaleDuration(startScale, endScale), delay)

\* As InterpolatorSetMaxDuration, but the duration is set to maxDuration.
InterpolatorSetMaxDurationAssign(i, maxDuration) ==
  [i EXCEPT !.duration = maxDuration]

InterpolatorSetMaxDuration(i, maxDuration) ==
  [i EXCEPT !.duration = Min(@, maxDuration)]

InterpolatorIsFinished(i) == IsFinished(i.elapsedTime, i.duration, i.delay)
InterpolatorAdvance(i, elapsedSeconds) == [i EXCEPT !.elapsedTime = @ + elapsedSeconds]
InterpolatorGetT(i) == GetT(i.elapsedTime, i.duration, i.delay)
InterpolatorGetDuration(i) == i.duration

\* --------------------------------------------------------------- animation
\* The declarations (sets of (object, property) pairs) and flag combinations
\* of the animations handed to the scheduler: one property of one object,
\* two objects at once, and a second object alone, so that pairs of
\* animations with the same property, with one object but different
\* properties, and with disjoint objects all occur, and so that a group can
\* hold an interruptible animation in front of a non-interruptible one.
\* Durations are in ticks.
OnePosition  == { <<MapPlane, Position>> }
AngleAndMore == { <<MapPlane, Angle>>, <<Selection, Position>> }
OtherAngle   == { <<Selection, Angle>> }

AnimationKinds ==
  { [decl |-> OnePosition, couldBeMixed |-> TRUE, couldBeInterrupted |-> TRUE,
     duration |-> 1],
    [decl |-> OnePosition, couldBeMixed |-> TRUE, couldBeInterrupted |-> FALSE,
     duration |-> 1],
    [decl |-> OnePosition, couldBeMixed |-> FALSE, couldBeInterrupted |-> TRUE,
     duration |-> 1],
    [decl |-> AngleAndMore, couldBeMixed |-> FALSE, couldBeInterrupted |-> TRUE,
     duration |-> 2],
    [decl |-> OtherAngle, couldBeMixed |-> TRUE, couldBeInterrupted |-> TRUE,
     duration |-> 1],
    [decl |-> OtherAngle, couldBeMixed |-> FALSE, couldBeInterrupted |-> FALSE,
     duration |-> 1] }

PropsOf(decl) == [o \in Objects |-> { p \in Properties : <<o, p>> \in decl }]

NewAnimation(id, kind) ==
  [ id |-> id,
    objects |-> { k[1] : k \in kind.decl },
    props |-> PropsOf(kind.decl),
    couldBeMixed |-> kind.couldBeMixed,
    couldBeInterrupted |-> kind.couldBeInterrupted,
    duration |-> kind.duration,
    elapsed |-> 0 ]

GetObjects(a) == a.objects
HasObject(a, object) == object \in a.objects
GetProperties(a, object) == a.props[object]
HasProperty(a, object, property) ==
  HasObject(a, object) /\ property \in a.props[object]
AnimIsFinished(a) == IsFinished(a.elapsed, a.duration, 0)
AnimAdvance(a, dt) == [a EXCEPT !.elapsed = @ + dt]
AnimGetProperty(a, object, property) ==
  [ anim |-> a.id, t |-> GetT(a.elapsed, a.duration, 0) ]

\* As CouldBeMixedWithProps, without the intersection of the property sets.
CouldBeMixedWithPropsNoIntersection(self, object, properties) ==
  self.couldBeMixed

CouldBeMixedWithProps(self, object, properties) ==
  IF ~self.couldBeMixed THEN FALSE
  ELSE (GetProperties(self, object) \cap properties) = {}

\* As CouldBeMixedWith, but the other animation has to be mixable as well.
CouldBeMixedWithMixableOther(self, animation) ==
  IF ~self.couldBeMixed \/ ~animation.couldBeMixed THEN FALSE
  ELSE \A object \in GetObjects(animation) :
         HasObject(self, object) =>
           CouldBeMixedWithProps(self, object, GetProperties(animation, object))

\* As CouldBeMixedWith, without the test of the other animation's flag.
CouldBeMixedWithAnyFlag(self, animation) ==
  IF ~self.couldBeMixed THEN FALSE
  ELSE \A object \in GetObjects(animation) :
         HasObject(self, object) =>
           CouldBeMixedWithProps(self, object, GetProperties(animation, object))

CouldBeMixedWith(self, animation) ==
  IF ~self.couldBeMixed \/ animation.couldBeMixed THEN FALSE
  ELSE \A object \in GetObjects(animation) :
         HasObject(self, object) =>
           CouldBeMixedWithProps(self, object, GetProperties(animation, object))

\* --------------------------------------------------------- FollowAnimation
\* A null interpolator pointer.
NoInterpolator == [ present |-> FALSE, elapsedTime |-> 0, duration |-> 0, delay |-> 0 ]

SetMove(f, startPos, endPos, minSize) ==
  IF startPos # endPos
  THEN [ f EXCEPT !.positionInterpolator = PositionInterpolator(0, startPos, endPos, minSize),
                  !.properties = @ \cup {Position} ]
  ELSE f

SetRotate(f, startAngle, endAngle) ==
  IF startAngle # endAngle
  THEN [ f EXCEPT !.angleInterpolator = AngleInterpolator(0, startAngle, endAngle),
                  !.properties = @ \cup {Angle} ]
  ELSE f

\* As SetScale, but the interpolator is created for equal scales as well.
SetScaleAlways(f, startScale, endScale) ==
  [ f EXCEPT !.scaleInterpolator = ScaleInterpolator(0, startScale, endScale),
             !.properties = @ \cup {Scale} ]

SetScale(f, startScale, endScale) ==
  IF startScale # endScale
  THEN [ f EXCEPT !.scaleInterpolator = ScaleInterpolator(0, startScale, endScale),
                  !.properties = @ \cup {Scale} ]
  ELSE f

\* FollowAnimation(): no interpolator and no property yet.
EmptyFollowAnimation ==
  [ couldBeInterrupted |-> TRUE, couldBeMixed |-> FALSE,
    objects |-> {MapPlane}, properties |-> {},
    positionInterpolator |-> NoInterpolator,
    angleInterpolator |-> NoInterpolator,
    scaleInterpolator |-> NoInterpolator ]

FollowAnimation(startPos, endPos, startAngle, endAngle, startScale, endScale, minSize) ==
  SetScale(SetRotate(SetMove(EmptyFollowAnimation, startPos, endPos, minSize),
                     startAngle, endAngle),
           startScale, endScale)

FollowHasProperty(f, object, property) ==
  object \in f.objects /\ property \in f.properties

FollowSetMaxDuration(f, maxDuration) ==
  [ f EXCEPT
      !.angleInterpolator =
         IF @.present THEN InterpolatorSetMaxDuration(@, maxDuration) ELSE @,
      !.scaleInterpolator =
         IF @.present THEN InterpolatorSetMaxDuration(@, maxDuration) ELSE @,
      !.positionInterpolator =
         IF @.present THEN InterpolatorSetMaxDuration(@, maxDuration) ELSE @ ]

FollowGetDuration(f) ==
  LET d0 == 0
      d1 == IF f.angleInterpolator.present
            THEN InterpolatorGetDuration(f.angleInterpolator) ELSE d0
      d2 == IF f.scaleInterpolator.present
            THEN Max(d1, InterpolatorGetDuration(f.scaleInterpolator)) ELSE d1
  IN IF f.positionInterpolator.present
     THEN Max(d2, InterpolatorGetDuration(f.positionInterpolator)) ELSE d2

\* ------------------------------------- members of a composite animation
\* An animation owned by a SequenceAnimation or a ParallelAnimation: its
\* declaration, one interpolator, and the number of OnStart and OnFinish
\* calls it has received.
Member(id, decl, duration) ==
  [ id |-> id,
    objects |-> { k[1] : k \in decl },
    props |-> PropsOf(decl),
    duration |-> duration,
    elapsed |-> 0,
    onStart |-> 0, onFinish |-> 0 ]

MemberOnStart(a) == [a EXCEPT !.onStart = @ + 1]
MemberOnFinish(a) == [a EXCEPT !.onFinish = @ + 1]
MemberAdvance(a, elapsedSeconds) == AnimAdvance(a, elapsedSeconds)

\* What is remembered of a member after it was popped and destroyed.
Destroyed(a) ==
  [ id |-> a.id, onStart |-> a.onStart, onFinish |-> a.onFinish,
    finished |-> AnimIsFinished(a) ]

\* ------------------------------------------------------- SequenceAnimation
\* s.animations is m_animations; s.popped lists the members popped so far.
EmptySequenceAnimation == [ animations |-> <<>>, popped |-> <<>> ]

SequenceAddAnimation(s, animation) ==
  [s EXCEPT !.animations = Append(@, animation)]

SequenceOnStart(s) ==
  IF s.animations = <<>> THEN s
  ELSE [s EXCEPT !.animations[1] = MemberOnStart(@)]

\* As SequenceAdvance, but OnStart is invoked on the member that becomes head.
SequenceAdvanceStartingNext(s, elapsedSeconds) ==
  IF s.animations = <<>> THEN s
  ELSE LET front == MemberAdvance(Head(s.animations), elapsedSeconds) IN
       IF AnimIsFinished(front)
       THEN SequenceOnStart([s EXCEPT !.animations = Tail(@),
                                      !.popped = Append(@, Destroyed(MemberOnFinish(front)))])
       ELSE [s EXCEPT !.animations[1] = front]

SequenceAdvance(s, elapsedSeconds) ==
  IF s.animations = <<>> THEN s
  ELSE LET front == MemberAdvance(Head(s.animations), elapsedSeconds) IN
       IF AnimIsFinished(front)
       THEN [s EXCEPT !.animations = Tail(@),
                      !.popped = Append(@, Destroyed(MemberOnFinish(front)))]
       ELSE [s EXCEPT !.animations[1] = front]

\* ------------------------------------------------------- ParallelAnimation
\* p.animations is m_animations, p.objects and p.properties the declared
\* sets; p.log lists the calls the last Advance made on members, in order.
EmptyParallelAnimation ==
  [ animations |-> <<>>, objects |-> {}, properties |-> [o \in Objects |-> {}],
    log |-> <<>> ]

ParallelGetProperties(p, object) == p.properties[object]

ParallelHasProperty(p, object, property) ==
  IF object \notin p.objects THEN FALSE
  ELSE property \in ParallelGetProperties(p, object)

ParallelAddAnimation(p, animation) ==
  [ p EXCEPT
      !.objects = @ \cup GetObjects(animation),
      !.properties = [ o \in Objects |->
                         IF o \in GetObjects(animation)
                         THEN @[o] \cup GetProperties(animation, o) ELSE @[o] ],
      !.animations = Append(@, animation) ]

\* The loop of ParallelAnimation::Advance: rest is still to visit, kept was
\* visited and stays.
RECURSIVE ParallelAdvanceFrom(_, _, _, _)
ParallelAdvanceFrom(rest, kept, elapsedSeconds, log) ==
  IF rest = <<>>
  THEN [ animations |-> kept, log |-> log ]
  ELSE LET anim == MemberAdvance(Head(rest), elapsedSeconds)
           ticked == Append(log, <<"Advance", anim.id>>)
       IN IF AnimIsFinished(anim)
          THEN ParallelAdvanceFrom(Tail(rest), kept, elapsedSeconds,
                                   ticked \o << <<"OnFinish", anim.id>>,
                                                <<"erase", anim.id>> >>)
          ELSE ParallelAdvanceFrom(Tail(rest), Append(kept, anim),
                                   elapsedSeconds, ticked)

\* As ParallelAdvanceFrom, but the calls of OnFinish and the removals are
\* collected in later and made after every member was ticked.
RECURSIVE BatchedAdvanceFrom(_, _, _, _, _)
BatchedAdvanceFrom(rest, kept, elapsedSeconds, log, later) ==
  IF rest = <<>>
  THEN [ animations |-> kept, log |-> log \o later ]
  ELSE LET anim == MemberAdvance(Head(rest), elapsedSeconds)
           ticked == Append(log, <<"Advance", anim.id>>)
       IN IF AnimIsFinished(anim)
          THEN BatchedAdvanceFrom(Tail(rest), kept, elapsedSeconds, ticked,
                                  later \o << <<"OnFinish", anim.id>>,
                                              <<"erase", anim.id>> >>)
          ELSE BatchedAdvanceFrom(Tail(rest), Append(kept, anim),
                                  elapsedSeconds, ticked, later)

ParallelAdvanceBatched(p, elapsedSeconds) ==
  LET r == BatchedAdvanceFrom(p.animations, <<>>, elapsedSeconds, <<>>, <<>>) IN
  [ p EXCEPT !.animations = r.animations, !.log = r.log ]

ParallelAdvance(p, elapsedSeconds) ==
  LET r == ParallelAdvanceFrom(p.animations, <<>>, elapsedSeconds, <<>>) IN
  [ p EXCEPT !.animations = r.animations, !.log = r.log ]

\* --------------------------------------------------------------- scheduler
DeclaredKeys(a) ==
  { k \in Keys : k[1] \in GetObjects(a) /\ k[2] \in GetProperties(a, k[1]) }

SaveAnimationResult(c, a) ==
  [ k \in (DOMAIN c) \cup DeclaredKeys(a) |->
      IF k \in DeclaredKeys(a) THEN AnimGetProperty(a, k[1], k[2]) ELSE c[k] ]

\* The calls made on animations during one AddAnimation or Advance are
\* logged in order as pairs <<call, id>>; "erase" and "insert" stand for the
\* removal from and the insertion into a group.
Interrupted(log) == { log[n][2] : n \in { m \in 1..Len(log) : log[m][1] = "Interrupt" } }
Finished(log) == { log[n][2] : n \in { m \in 1..Len(log) : log[m][1] = "OnFinish" } }

\* As ScanList, but an evicted member is not snapshotted into the cache.
RECURSIVE ScanListNoSave(_, _, _, _, _, _)
ScanListNoSave(rest, kept, animation, force, c, log) ==
  IF rest = <<>>
  THEN [ couldBeMixed |-> TRUE, lst |-> kept, cache |-> c, log |-> log ]
  ELSE LET anim == Head(rest) IN
       IF ~CouldBeMixedWith(anim, animation)
       THEN IF ~force \/ ~anim.couldBeInterrupted
            THEN [ couldBeMixed |-> FALSE, lst |-> kept \o rest, cache |-> c,
                   log |-> log ]
            ELSE ScanListNoSave(Tail(rest), kept, animation, force, c,
                                log \o << <<"Interrupt", anim.id>>,
                                          <<"erase", anim.id>> >>)
       ELSE ScanListNoSave(Tail(rest), Append(kept, anim), animation, force,
                           c, log)

\* As ScanList, but a group that rejects the animation gets back the members
\* evicted from it (whole is the group, c0 and log0 the cache and the log
\* before its scan).
RECURSIVE ScanListFrom(_, _, _, _, _, _, _, _, _)
ScanListFrom(whole, c0, log0, rest, kept, animation, force, c, log) ==
  IF rest = <<>>
  THEN [ couldBeMixed |-> TRUE, lst |-> kept, cache |-> c, log |-> log ]
  ELSE LET anim == Head(rest) IN
       IF ~CouldBeMixedWith(anim, animation)
       THEN IF ~force \/ ~anim.couldBeInterrupted
            THEN [ couldBeMixed |-> FALSE, lst |-> whole, cache |-> c0,
                   log |-> log0 ]
            ELSE ScanListFrom(whole, c0, log0, Tail(rest), kept, animation, force,
                              SaveAnimationResult(c, anim),
                              log \o << <<"Interrupt", anim.id>>,
                                        <<"Save", anim.id>>,
                                        <<"erase", anim.id>> >>)
       ELSE ScanListFrom(whole, c0, log0, Tail(rest), Append(kept, anim),
                         animation, force, c, log)

ScanListRollBack(rest, kept, animation, force, c, log) ==
  ScanListFrom(kept \o rest, c, log, rest, kept, animation, force, c, log)

\* The inner loop of AddAnimation over one group.
RECURSIVE ScanList(_, _, _, _, _, _)
ScanList(rest, kept, animation, force, c, log) ==
  IF rest = <<>>
  THEN [ couldBeMixed |-> TRUE, lst |-> kept, cache |-> c, log |-> log ]
  ELSE LET anim == Head(rest) IN
       IF ~CouldBeMixedWith(anim, animation)
       THEN IF ~force \/ ~anim.couldBeInterrupted
            THEN [ couldBeMixed |-> FALSE, lst |-> kept \o rest, cache |-> c,
                   log |-> log ]
            ELSE ScanList(Tail(rest), kept, animation, force,
                          SaveAnimationResult(c, anim),
                          log \o << <<"Interrupt", anim.id>>,
                                    <<"Save", anim.id>>,
                                    <<"erase", anim.id>> >>)
       ELSE ScanList(Tail(rest), Append(kept, anim), animation, force, c, log)

PushAnimation(ch, animation) == Append(ch, <<animation>>)

RECURSIVE ScanChain(_, _, _, _, _, _)

\* As ScanChain, but OnStart is not invoked on an animation that joins an
\* existing group.
ScanChainStartOnPush(ch, i, animation, force, c, log) ==
  IF i > Len(ch)
  THEN [ chain |-> PushAnimation(ch, animation), cache |-> c, placed |-> i,
         pushed |-> TRUE,
         log |-> log \o << <<"OnStart", animation.id>>, <<"insert", animation.id>> >> ]
  ELSE LET r == ScanList(ch[i], <<>>, animation, force, c, log) IN
       IF r.couldBeMixed
       THEN [ chain |-> [ch EXCEPT ![i] = Append(r.lst, animation)],
              cache |-> r.cache, placed |-> i, pushed |-> FALSE,
              log |-> r.log \o << <<"insert", animation.id>> >> ]
       ELSE ScanChain([ch EXCEPT ![i] = r.lst], i + 1, animation, force,
                      r.cache, r.log)

\* The outer loop of AddAnimation, from group i on.
ScanChain(ch, i, animation, force, c, log) ==
  IF i > Len(ch)
  THEN [ chain |-> PushAnimation(ch, animation), cache |-> c, placed |-> i,
         pushed |-> TRUE,
         log |-> log \o << <<"OnStart", animation.id>>, <<"insert", animation.id>> >> ]
  ELSE LET r == ScanList(ch[i], <<>>, animation, force, c, log) IN
       IF r.couldBeMixed
       THEN [ chain |-> [ch EXCEPT ![i] = Append(r.lst, animation)],
              cache |-> r.cache, placed |-> i, pushed |-> FALSE,
              log |-> r.log \o << <<"OnStart", animation.id>>,
                                  <<"insert", animation.id>> >> ]
       ELSE ScanChain([ch EXCEPT ![i] = r.lst], i + 1, animation, force,
                      r.cache, r.log)

AddAnimationResult(ch, c, animation, force) ==
  ScanChain(ch, 1, animation, force, c, <<>>)

\* As AdvanceList, but a finished member is not snapshotted into the cache.
RECURSIVE AdvanceListNoSave(_, _, _, _, _)
AdvanceListNoSave(rest, kept, dt, c, log) ==
  IF rest = <<>>
  THEN [ lst |-> kept, cache |-> c, log |-> log ]
  ELSE LET anim == AnimAdvance(Head(rest), dt)
           ticked == Append(log, <<"Advance", anim.id>>)
       IN IF AnimIsFinished(anim)
          THEN AdvanceListNoSave(Tail(rest), kept, dt, c,
                                 ticked \o << <<"OnFinish", anim.id>>,
                                              <<"erase", anim.id>> >>)
          ELSE AdvanceListNoSave(Tail(rest), Append(kept, anim), dt, c, ticked)

\* The loop of Advance over the head group.
RECURSIVE AdvanceList(_, _, _, _, _)
AdvanceList(rest, kept, dt, c, log) ==
  IF rest = <<>>
  THEN [ lst |-> kept, cache |-> c, log |-> log ]
  ELSE LET anim == AnimAdvance(Head(rest), dt)
           ticked == Append(log, <<"Advance", anim.id>>)
       IN IF AnimIsFinished(anim)
          THEN AdvanceList(Tail(rest), kept, dt, SaveAnimationResult(c, anim),
                           ticked \o << <<"OnFinish", anim.id>>,
                                        <<"Save", anim.id>>,
                                        <<"erase", anim.id>> >>)
          ELSE AdvanceList(Tail(rest), Append(kept, anim), dt, c, ticked)

\* As AdvanceResult, but a head group that became empty is popped.
AdvanceResultPopEmptyHead(ch, c, dt) ==
  IF ch = <<>>
  THEN [ chain |-> ch, cache |-> c, log |-> <<>> ]
  ELSE LET r == AdvanceList(ch[1], <<>>, dt, c, <<>>) IN
       [ chain |-> IF r.lst = <<>> THEN Tail(ch) ELSE [ch EXCEPT ![1] = r.lst],
         cache |-> r.cache, log |-> r.log ]

\* As AdvanceResult, but the members of the later groups are ticked as well.
AdvanceResultEveryGroup(ch, c, dt) ==
  IF ch = <<>>
  THEN [ chain |-> ch, cache |-> c, log |-> <<>> ]
  ELSE LET r == AdvanceList(ch[1], <<>>, dt, c, <<>>) IN
       [ chain |-> [ i \in 1..Len(ch) |->
                       IF i = 1 THEN r.lst
                       ELSE [ j \in 1..Len(ch[i]) |-> AnimAdvance(ch[i][j], dt) ] ],
         cache |-> r.cache, log |-> r.log ]

AdvanceResult(ch, c, dt) ==
  IF ch = <<>>
  THEN [ chain |-> ch, cache |-> c, log |-> <<>> ]
  ELSE LET r == AdvanceList(ch[1], <<>>, dt, c, <<>>) IN
       [ chain |-> [ch EXCEPT ![1] = r.lst], cache |-> r.cache, log |-> r.log ]

\* The head group animations exposing (object, property), in iteration order.
Exposing(ch, object, property) ==
  IF ch = <<>> THEN <<>>
  ELSE SelectSeq(ch[1], LAMBDA a : HasProperty(a, object, property))

\* As GetPropertyResult, but the cache is consulted before the head group.
GetPropertyResultCacheFirst(ch, c, object, property, current) ==
  LET e == Exposing(ch, object, property) IN
  IF <<object, property>> \in DOMAIN c
  THEN [ value |-> c[<<object, property>>],
         cache |-> [ k \in (DOMAIN c) \ {<<object, property>>} |-> c[k] ] ]
  ELSE IF e # <<>>
       THEN [ value |-> AnimGetProperty(e[1], object, property), cache |-> c ]
       ELSE [ value |-> current, cache |-> c ]

\* As GetPropertyResult, but a cached value is not erased when it is read.
GetPropertyResultNoErase(ch, c, object, property, current) ==
  LET e == Exposing(ch, object, property) IN
  IF e # <<>>
  THEN [ value |-> AnimGetProperty(e[1], object, property), cache |-> c ]
  ELSE IF <<object, property>> \in DOMAIN c
       THEN [ value |-> c[<<object, property>>], cache |-> c ]
       ELSE [ value |-> current, cache |-> c ]

GetPropertyResult(ch, c, object, property, current) ==
  LET e == Exposing(ch, object, property) IN
  IF e # <<>>
  THEN [ value |-> AnimGetProperty(e[1], object, property), cache |-> c ]
  ELSE IF <<object, property>> \in DOMAIN c
       THEN [ value |-> c[<<object, property>>],
              cache |-> [ k \in (DOMAIN c) \ {<<object, property>>} |-> c[k] ] ]
       ELSE [ value |-> current, cache |-> c ]

\* As AnimationExists, without the scan of the cache.
AnimationExistsHeadOnly(ch, c, object) ==
  IF ch = <<>> THEN FALSE
  ELSE \E i \in 1..Len(ch[1]) : HasObject(ch[1][i], object)

AnimationExists(ch, c, object) ==
  IF ch = <<>> THEN FALSE
  ELSE IF \E i \in 1..Len(ch[1]) : HasObject(ch[1][i], object) THEN TRUE
  ELSE IF \E k \in DOMAIN c : k[1] = object THEN TRUE
  ELSE FALSE

\* ----------------------------------------------------------------- actions
\* The caller supplied fallback of GetProperty: a value no animation produces.
Current == [ anim |-> 0, t |-> <<0, 1>> ]

EmptyCache == [ k \in {} |-> Current ]

\* No object is used on its own while the scheduler runs.
NoUnit == [ class |-> "none" ]

NoCall == [ op |-> "none", id |-> 0, force |-> FALSE, placed |-> 0,
            pushed |-> FALSE, evicted |-> {}, dt |-> 0, done |-> {},
            log |-> <<>>,
            key |-> <<MapPlane, Position>>, value |-> Current ]

Init ==
  /\ chain = <<>>
  /\ cache = EmptyCache
  /\ nextId = 1
  /\ last = NoCall
  /\ deferred = {}
  /\ unit = NoUnit

AddAnimation(kind, force) ==
  /\ nextId <= MaxAdds
  /\ LET animation == NewAnimation(nextId, kind)
         r == AddAnimationResult(chain, cache, animation, force)
     IN /\ chain' = r.chain
        /\ cache' = r.cache
        /\ last' = [ NoCall EXCEPT !.op = "AddAnimation", !.id = nextId,
                                   !.force = force, !.placed = r.placed,
                                   !.pushed = r.pushed,
                                   !.evicted = Interrupted(r.log), !.log = r.log ]
        /\ deferred' = deferred \cup
             { <<r.chain[p[1]][p[2]].id, nextId>> :
                 p \in { q \in (1..(r.placed - 1)) \X (1..MaxAdds) :
                           /\ q[2] <= Len(r.chain[q[1]])
                           /\ ~r.chain[q[1]][q[2]].couldBeInterrupted
                           /\ ~CouldBeMixedWith(r.chain[q[1]][q[2]], animation) } }
  /\ nextId' = nextId + 1
  /\ UNCHANGED unit

Advance(dt) ==
  /\ LET r == AdvanceResult(chain, cache, dt) IN
     /\ chain' = r.chain
     /\ cache' = r.cache
     /\ last' = [ NoCall EXCEPT !.op = "Advance", !.dt = dt, !.done = Finished(r.log),
                                !.log = r.log ]
  /\ UNCHANGED <<nextId, deferred, unit>>

GetProperty(object, property) ==
  /\ LET r == GetPropertyResult(chain, cache, object, property, Current) IN
     /\ cache' = r.cache
     /\ last' = [ NoCall EXCEPT !.op = "GetProperty",
                                !.key = <<object, property>>, !.value = r.value ]
  /\ UNCHANGED <<chain, nextId, deferred, unit>>

Next ==
  \/ \E kind \in AnimationKinds, force \in BOOLEAN : AddAnimation(kind, force)
  \/ \E dt \in Dts : Advance(dt)
  \/ \E object \in Objects, property \in Properties : GetProperty(object, property)

Spec == Init /\ [][Next]_vars

\* Advance is called once per rendered frame, again and again.
FairSpec == Spec /\ WF_vars(\E dt \in Dts : Advance(dt))

\* ------------------------------------------- objects used on their own
\* The scheduler is not called while one object is used on its own.
schedVars == <<chain, cache, nextId, last, deferred>>

SchedulerIdle ==
  /\ chain = <<>>
  /\ cache = EmptyCache
  /\ nextId = 1
  /\ last = NoCall
  /\ deferred = {}

\* -- Animation::CouldBeMixedWith on a pair of animations
\* Every declaration over Keys with either value of the couldBeMixed flag.
MixKinds ==
  { [decl |-> d, couldBeMixed |-> m, couldBeInterrupted |-> TRUE, duration |-> 1] :
      d \in SUBSET Keys, m \in BOOLEAN }

MixInit ==
  /\ SchedulerIdle
  /\ \E x \in MixKinds, y \in MixKinds :
       unit = [ class |-> "pair", self |-> NewAnimation(1, x),
                other |-> NewAnimation(2, y), called |-> FALSE,
                result |-> FALSE, reverse |-> FALSE ]

\* self.CouldBeMixedWith(other) and other.CouldBeMixedWith(self) are evaluated.
CallCouldBeMixedWith ==
  /\ ~unit.called
  /\ unit' = [ unit EXCEPT !.called = TRUE,
                           !.result = CouldBeMixedWith(unit.self, unit.other),
                           !.reverse = CouldBeMixedWith(unit.other, unit.self) ]
  /\ UNCHANGED schedVars

MixNext == CallCouldBeMixedWith

MixSpec == MixInit /\ [][MixNext]_vars

\* -- one Interpolator
\* An interpolator built by Interpolator(duration, delay) or by
\* PositionInterpolator(delay, startPosition, endPosition, convertor);
\* unit.prevT is GetT() before the last Advance.
InterpInit ==
  /\ SchedulerIdle
  /\ \/ \E duration \in 0..MaxDuration, delay \in 0..MaxDelay :
          unit = [ class |-> "Interpolator", samePosition |-> FALSE,
                   it |-> Interpolator(duration, delay),
                   advances |-> 0, prevT |-> <<0, 1>> ]
     \/ \E delay \in 0..MaxDelay, startPosition \in Positions,
           endPosition \in Positions, minSize \in ScreenSides :
          unit = [ class |-> "PositionInterpolator",
                   samePosition |-> (startPosition = endPosition),
                   it |-> PositionInterpolator(delay, startPosition, endPosition, minSize),
                   advances |-> 0, prevT |-> <<0, 1>> ]

\* Interpolator::Advance(dt) with dt >= 0, while the elapsed time is small.
CallAdvance(dt) ==
  /\ unit.it.elapsedTime <= MaxDuration + MaxDelay
  /\ unit' = [ unit EXCEPT !.it = InterpolatorAdvance(@, dt),
                           !.advances = 1,
                           !.prevT = InterpolatorGetT(unit.it) ]
  /\ UNCHANGED schedVars

InterpNext == \E dt \in 0..MaxDt : CallAdvance(dt)

InterpSpec == InterpInit /\ [][InterpNext]_vars

\* -- one FollowAnimation
Angles == 0..MaxAngle
\* The arguments of SetMaxDuration, in ticks.
Caps == {0, 10, 50}

\* The arguments of the constructor are chosen; unit.made is the animation
\* as constructed, unit.caps the arguments of the SetMaxDuration calls made
\* since.
FollowInit ==
  /\ SchedulerIdle
  /\ \E startPos \in Positions, endPos \in Positions, startAngle \in Angles,
        endAngle \in Angles, startScale \in Scales, endScale \in Scales,
        minSize \in ScreenSides :
       unit = [ class |-> "FollowAnimation", constructed |-> FALSE,
                args |-> <<startPos, endPos, startAngle, endAngle,
                           startScale, endScale, minSize>>,
                made |-> EmptyFollowAnimation, it |-> EmptyFollowAnimation,
                caps |-> {} ]

CallFollowAnimation ==
  /\ ~unit.constructed
  /\ LET a == unit.args
         f == FollowAnimation(a[1], a[2], a[3], a[4], a[5], a[6], a[7])
     IN unit' = [ unit EXCEPT !.constructed = TRUE, !.made = f, !.it = f ]
  /\ UNCHANGED schedVars

CallSetMaxDuration(maxDuration) ==
  /\ unit.constructed
  /\ unit' = [ unit EXCEPT !.it = FollowSetMaxDuration(@, maxDuration),
                           !.caps = @ \cup {maxDuration} ]
  /\ UNCHANGED schedVars

FollowNext ==
  \/ CallFollowAnimation
  \/ \E maxDuration \in Caps : CallSetMaxDuration(maxDuration)

FollowSpec == FollowInit /\ [][FollowNext]_vars

\* -- one SequenceAnimation
\* unit.added counts the AddAnimation calls, unit.started tells whether
\* OnStart was called and unit.startedHead which member was head then (0 for
\* none).
SeqInit ==
  /\ SchedulerIdle
  /\ unit = [ class |-> "SequenceAnimation", it |-> EmptySequenceAnimation,
              added |-> 0, started |-> FALSE, startedHead |-> 0 ]

CallSeqAddAnimation(duration) ==
  /\ unit.added < MaxStages
  /\ unit' = [ unit EXCEPT
                 !.it = SequenceAddAnimation(@, Member(unit.added + 1, OnePosition, duration)),
                 !.added = @ + 1 ]
  /\ UNCHANGED schedVars

\* The scheduler calls OnStart once, when the animation is queued.
CallSeqOnStart ==
  /\ ~unit.started
  /\ unit' = [ unit EXCEPT
                 !.it = SequenceOnStart(@),
                 !.started = TRUE,
                 !.startedHead = IF unit.it.animations = <<>> THEN 0
                                 ELSE Head(unit.it.animations).id ]
  /\ UNCHANGED schedVars

CallSeqAdvance(dt) ==
  /\ unit' = [ unit EXCEPT !.it = SequenceAdvance(@, dt) ]
  /\ UNCHANGED schedVars

SeqNext ==
  \/ \E duration \in 0..MaxDuration : CallSeqAddAnimation(duration)
  \/ CallSeqOnStart
  \/ \E dt \in Dts : CallSeqAdvance(dt)

SeqSpec == SeqInit /\ [][SeqNext]_vars

\* -- one ParallelAnimation
\* The declarations and durations of the animations added to it.
ParKinds ==
  { [decl |-> OnePosition, duration |-> 0],
    [decl |-> OnePosition, duration |-> 2],
    [decl |-> AngleAndMore, duration |-> 1],
    [decl |-> OtherAngle, duration |-> 1] }

\* unit.inserted is the set of all members ever added, unit.op the last call
\* and unit.dt the argument of the last Advance.
ParInit ==
  /\ SchedulerIdle
  /\ unit = [ class |-> "ParallelAnimation", it |-> EmptyParallelAnimation,
              inserted |-> {}, op |-> "none", dt |-> 0 ]

CallParAddAnimation(kind) ==
  /\ Cardinality(unit.inserted) < MaxMembers
  /\ LET animation == Member(Cardinality(unit.inserted) + 1, kind.decl, kind.duration)
     IN unit' = [ unit EXCEPT !.it = ParallelAddAnimation(@, animation),
                              !.inserted = @ \cup {animation},
                              !.op = "AddAnimation" ]
  /\ UNCHANGED schedVars

CallParAdvance(dt) ==
  /\ unit' = [ unit EXCEPT !.it = ParallelAdvance(@, dt), !.op = "Advance",
                           !.dt = dt ]
  /\ UNCHANGED schedVars

ParNext ==
  \/ \E kind \in ParKinds : CallParAddAnimation(kind)
  \/ \E dt \in Dts : CallParAdvance(dt)

ParSpec == ParInit /\ [][ParNext]_vars

\* ------------------------------------------------------------ state helpers
Groups == 1..Len(chain)
Members(i) == { chain[i][j] : j \in 1..Len(chain[i]) }
AllMembers == UNION { Members(i) : i \in Groups }
InChain(id) == \E a \in AllMembers : a.id = id
AnimOf(id) == CHOOSE a \in AllMembers : a.id = id
GroupOf(id) == CHOOSE i \in Groups : \E a \in Members(i) : a.id = id
IdsOf(lst) == [ j \in 1..Len(lst) |-> lst[j].id ]

\* The animation the last AddAnimation call inserted (it is appended to its group).
LastAdded == chain[last.placed][Len(chain[last.placed])]
\* The same animation, seen from the state before the call.
AddedNext == chain'[last'.placed][Len(chain'[last'.placed])]
InChainNext(id) ==
  \E i \in 1..Len(chain') : \E j \in 1..Len(chain'[i]) : chain'[i][j].id = id

\* ------------------------------------------------------------------ claims

C2_MixableDisjointShareGroup ==
  (last.op = "AddAnimation" /\ ~last.force /\ LastAdded.couldBeMixed) =>
    \A a \in AllMembers :
      ( /\ a.id # last.id
        /\ a.couldBeMixed
        /\ (GetObjects(a) \cap GetObjects(LastAdded)) = {} )
      => GroupOf(a.id) = last.placed

\* C3: an animation B with couldBeMixed = FALSE added with force = FALSE while
\* an animation A touching a common object is queued is placed in a newly
\* created group, not in A's group.
C3_NonMixableGetsNewGroup ==
  (last.op = "AddAnimation" /\ ~last.force /\ ~LastAdded.couldBeMixed) =>
    \A a \in AllMembers :
      ( /\ a.id # last.id
        /\ (GetObjects(a) \cap GetObjects(LastAdded)) # {} )
      => (last.pushed /\ GroupOf(a.id) # last.placed)

\* Group i is the single interruptible animation D and the animation being
\* added declares a property on an object that D declares too.
C4_Case(i) ==
  /\ Len(chain[i]) = 1
  /\ chain[i][1].couldBeInterrupted
  /\ (DeclaredKeys(chain[i][1]) \cap DeclaredKeys(AddedNext)) # {}

\* D left the chain, the cache holds its last values, the added animation is
\* in D's group and no group was appended.
C4_Effect(i) ==
  LET D == chain[i][1] IN
  /\ ~InChainNext(D.id)
  /\ \A k \in DeclaredKeys(D) :
       k \in DOMAIN cache' /\ cache'[k] = AnimGetProperty(D, k[1], k[2])
  /\ last'.placed = i
  /\ ~last'.pushed
  /\ Len(chain') = Len(chain)

\* Group j holds a non-interruptible member that cannot be mixed with animation.
RejectsForced(j, animation) ==
  \E m \in 1..Len(chain[j]) :
    ~chain[j][m].couldBeInterrupted /\ ~CouldBeMixedWith(chain[j][m], animation)

\* C4 (as stated): AddAnimation(C, force = TRUE) evicts the single
\* interruptible animation D of any group whose declaration overlaps C's,
\* snapshots D into the cache and puts C into D's group.
C4_ForcedEvictionAnyGroup ==
  [][ (last'.op = "AddAnimation" /\ last'.force) =>
        \A i \in Groups : C4_Case(i) => C4_Effect(i) ]_vars

\* C4 (amended): the same, for a group [D] such that every earlier group of
\* the chain rejects C, i.e. holds a non-interruptible animation that cannot
\* be mixed with C (in particular when [D] is the head group).
C4_ForcedEviction ==
  [][ (last'.op = "AddAnimation" /\ last'.force) =>
        \A i \in Groups :
          (C4_Case(i) /\ \A j \in 1..(i - 1) : RejectsForced(j, AddedNext))
          => C4_Effect(i) ]_vars

\* A forced AddAnimation evicted the only member of a non-head group and took
\* its place.
C4_Witness ==
  /\ last.op = "AddAnimation"
  /\ last.force
  /\ Cardinality(last.evicted) = 1
  /\ ~last.pushed
  /\ last.placed >= 2
  /\ Len(chain[last.placed]) = 1

\* C5: an animation b whose AddAnimation was rejected by a group because of a
\* non-interruptible animation a is advanced after a has finished (a left the
\* chain; b counts as having run when it has elapsed time or left the chain).
C5_DeferredEventuallyRuns ==
  \A a \in AnimIds : \A b \in AnimIds :
    (<<a, b>> \in deferred /\ ~InChain(a))
      ~> (~InChain(b) \/ AnimOf(b).elapsed > 0)

\* C6: GetProperty returns the value of the first head group animation
\* exposing (object, property), else the cached value, else the fallback; it
\* returns the fallback exactly when neither of the first two exists.
C6_GetPropertyResolution ==
  [][ last'.op = "GetProperty" =>
        LET k == last'.key
            e == Exposing(chain, k[1], k[2])
        IN /\ (e # <<>>) => (last'.value = AnimGetProperty(e[1], k[1], k[2]))
           /\ (e = <<>> /\ k \in DOMAIN cache) => (last'.value = cache[k])
           /\ (last'.value = Current) <=> (e = <<>> /\ k \notin DOMAIN cache)
    ]_vars

\* GetProperty was served from the cache while animations run in the head group.
C6_Witness ==
  /\ last.op = "GetProperty"
  /\ last.value # Current
  /\ chain # <<>>
  /\ chain[1] # <<>>
  /\ Exposing(chain, last.key[1], last.key[2]) = <<>>

\* C7: a GetProperty served from the cache removes the entry, so that the next
\* GetProperty of the same key, with no call in between, returns the fallback;
\* a GetProperty served by a head group animation leaves the cache unchanged.
C7_ReadThenDelete ==
  [][ last'.op = "GetProperty" =>
        LET k == last'.key
            e == Exposing(chain, k[1], k[2])
        IN /\ (e = <<>> /\ k \in DOMAIN cache) =>
                /\ k \notin DOMAIN cache'
                /\ last'.value = cache[k]
           /\ (e # <<>>) => (cache' = cache)
           /\ ( /\ last.op = "GetProperty"
                /\ last.key = k
                /\ last.value # Current
                /\ e = <<>> )
              => (last'.value = Current)
    ]_vars

\* A cached value was returned and is gone, other entries are still cached.
C7_Witness ==
  /\ last.op = "GetProperty"
  /\ last.value # Current
  /\ Exposing(chain, last.key[1], last.key[2]) = <<>>
  /\ last.key \notin DOMAIN cache
  /\ DOMAIN cache # {}

\* C8: Advance leaves the number of groups and every non-head group as they
\* were, and changes neither chain nor cache when the chain is empty.
C8_AdvanceTouchesHeadOnly ==
  [][ last'.op = "Advance" =>
        /\ Len(chain') = Len(chain)
        /\ \A i \in 2..Len(chain) : chain'[i] = chain[i]
        /\ (chain = <<>>) => (chain' = chain /\ cache' = cache)
    ]_vars

\* Advance removed a finished head member while a later group holds an animation.
C8_Witness ==
  /\ last.op = "Advance"
  /\ last.done # {}
  /\ Len(chain) >= 2
  /\ chain[2] # <<>>

\* C9: after Advance(dt) every head member that is finished after its tick is
\* gone from the group and the cache holds its final values, no remaining
\* member is finished, and the others remain in their previous order.
C9_FinishedMembersLeave ==
  [][ (last'.op = "Advance" /\ chain # <<>>) =>
        LET head == chain[1]
            ticked == [ j \in 1..Len(head) |-> AnimAdvance(head[j], last'.dt) ]
        IN /\ \A j \in 1..Len(head) :
                AnimIsFinished(ticked[j]) =>
                  /\ \A m \in 1..Len(chain'[1]) : chain'[1][m].id # head[j].id
                  /\ \A k \in DeclaredKeys(head[j]) :
                       /\ k \in DOMAIN cache'
                       /\ cache'[k] = AnimGetProperty(ticked[j], k[1], k[2])
           /\ \A m \in 1..Len(chain'[1]) : ~AnimIsFinished(chain'[1][m])
           /\ IdsOf(chain'[1]) =
                IdsOf(SelectSeq(ticked, LAMBDA a : ~AnimIsFinished(a)))
    ]_vars

\* An Advance call removed a finished member and left another one running.
C9_Witness ==
  /\ last.op = "Advance"
  /\ last.done # {}
  /\ chain[1] # <<>>

\* C10: AnimationExists(object) is true exactly when a head group animation
\* touches object or the cache holds an entry of that object.
C10_AnimationExistsIff ==
  \A object \in Objects :
    AnimationExists(chain, cache, object) <=>
      \/ (chain # <<>> /\ \E a \in Members(1) : HasObject(a, object))
      \/ \E k \in DOMAIN cache : k[1] = object

\* Only the cache answers: the head group is empty and an entry is cached.
C10_Witness ==
  /\ chain # <<>>
  /\ chain[1] = <<>>
  /\ \E object \in Objects :
       AnimationExists(chain, cache, object) /\ \E k \in DOMAIN cache : k[1] = object

\* C11: X.CouldBeMixedWith(Y) is true exactly when X is mixable, Y is not
\* mixable and, on every object both touch, the declared properties of X and
\* Y are disjoint; it is false when X is not mixable or both are mixable, and
\* it never holds in both directions.
C11_CouldBeMixedWithExactly ==
  unit.called =>
    LET X == unit.self
        Y == unit.other
    IN /\ unit.result <=>
            /\ X.couldBeMixed
            /\ ~Y.couldBeMixed
            /\ \A o \in GetObjects(X) \cap GetObjects(Y) :
                 (GetProperties(X, o) \cap GetProperties(Y, o)) = {}
       /\ (~X.couldBeMixed \/ (X.couldBeMixed /\ Y.couldBeMixed)) => ~unit.result
       /\ ~(unit.result /\ unit.reverse)

\* The predicate was evaluated to TRUE on two animations that touch a common
\* object with different properties.
C11_Witness ==
  /\ unit.called
  /\ unit.result
  /\ (GetObjects(unit.self) \cap GetObjects(unit.other)) # {}

\* C12: whatever the duration >= 0 and delay >= 0 of an interpolator and the
\* Advance(dt) calls made on it with dt >= 0, GetT() is a number between 0 and
\* 1 and is not below its value before the last Advance.
C12_GetTDefinedAndMonotone ==
  LET t == InterpolatorGetT(unit.it) IN
  /\ t # NaN
  /\ Leq(<<0, 1>>, t)
  /\ Leq(t, <<1, 1>>)
  /\ (unit.prevT # NaN) => Leq(unit.prevT, t)

\* C13: an interpolator of duration 0 is finished once its elapsed time has
\* reached its delay; a PositionInterpolator built with equal start and end
\* position and no delay has duration 0 and is finished before any Advance.
C13_ZeroDurationFinished ==
  /\ (unit.it.duration = 0 /\ unit.it.elapsedTime >= unit.it.delay) =>
       InterpolatorIsFinished(unit.it)
  /\ ( /\ unit.class = "PositionInterpolator"
       /\ unit.samePosition
       /\ unit.it.delay = 0
       /\ unit.advances = 0 ) =>
       (unit.it.duration = 0 /\ InterpolatorIsFinished(unit.it))

\* The duration of interpolator i is at most that of made and every cap.
Shrunk(i, made, caps) ==
  /\ InterpolatorGetDuration(i) <= InterpolatorGetDuration(made)
  /\ \A cap \in caps : InterpolatorGetDuration(i) <= cap

\* C14: after any SetMaxDuration calls the duration of every interpolator of a
\* FollowAnimation is at most its duration as constructed and at most every
\* cap given, and so is FollowAnimation::GetDuration(); an absent
\* interpolator stays absent.
C14_SetMaxDurationOnlyShrinks ==
  unit.constructed =>
  LET f == unit.it
      m == unit.made
  IN /\ f.angleInterpolator.present = m.angleInterpolator.present
     /\ f.scaleInterpolator.present = m.scaleInterpolator.present
     /\ f.positionInterpolator.present = m.positionInterpolator.present
     /\ f.angleInterpolator.present =>
          Shrunk(f.angleInterpolator, m.angleInterpolator, unit.caps)
     /\ f.scaleInterpolator.present =>
          Shrunk(f.scaleInterpolator, m.scaleInterpolator, unit.caps)
     /\ f.positionInterpolator.present =>
          Shrunk(f.positionInterpolator, m.positionInterpolator, unit.caps)
     /\ FollowGetDuration(f) <= FollowGetDuration(m)
     /\ \A cap \in unit.caps : FollowGetDuration(f) <= cap

\* A FollowAnimation with three interpolators was capped twice; the larger
\* cap shortened some but not all of them and the smaller one all of them.
C14_Witness ==
  /\ unit.constructed
  /\ unit.caps = {10, 50}
  /\ unit.made.properties = {Position, Angle, Scale}
  /\ InterpolatorGetDuration(unit.made.angleInterpolator) > 50
  /\ InterpolatorGetDuration(unit.made.scaleInterpolator) < 50
  /\ FollowGetDuration(unit.it) = 10

\* C15: a FollowAnimation declares exactly those of Position, Angle and Scale
\* whose start and end value differ, HasProperty(MapPlane, P) holds exactly
\* for them, and the interpolator of P exists exactly when P is declared.
C15_DeclaresWhatDiffers ==
  unit.constructed =>
  LET f == unit.it
      move == unit.args[1] # unit.args[2]
      rotate == unit.args[3] # unit.args[4]
      scale == unit.args[5] # unit.args[6]
  IN
  /\ f.properties = { P \in {Position, Angle, Scale} :
                         \/ (P = Position /\ move)
                         \/ (P = Angle /\ rotate)
                         \/ (P = Scale /\ scale) }
  /\ FollowHasProperty(f, MapPlane, Position) <=> move
  /\ FollowHasProperty(f, MapPlane, Angle) <=> rotate
  /\ FollowHasProperty(f, MapPlane, Scale) <=> scale
  /\ f.positionInterpolator.present <=> (Position \in f.properties)
  /\ f.angleInterpolator.present <=> (Angle \in f.properties)
  /\ f.scaleInterpolator.present <=> (Scale \in f.properties)
  /\ \A P \in {Position, Angle, Scale} : ~FollowHasProperty(f, Selection, P)

\* A FollowAnimation that rotates only: equal positions and equal scales.
C15_Witness ==
  /\ unit.constructed
  /\ unit.args[1] = unit.args[2]
  /\ unit.args[3] # unit.args[4]
  /\ unit.args[5] = unit.args[6]
  /\ unit.it.properties = {Angle}
  /\ unit.it.angleInterpolator.present

\* C16: the members of a SequenceAnimation are popped in insertion order,
\* each finished and with one OnFinish call; among the queued members only
\* the head has elapsed time; OnStart has been invoked only on the member
\* that was head when the sequence's OnStart ran; and an Advance call (a step
\* that is neither AddAnimation nor OnStart) advances the head member alone,
\* by dt, and pops at most that one member.
C16_StagesRunInOrder ==
  [][ LET s == unit'.it
          n == Len(s.popped)
      IN /\ \A j \in 1..n :
              /\ s.popped[j].id = j
              /\ s.popped[j].onFinish = 1
              /\ s.popped[j].finished
              /\ s.popped[j].onStart = IF j = unit'.startedHead THEN 1 ELSE 0
         /\ \A j \in 1..Len(s.animations) :
              /\ s.animations[j].id = n + j
              /\ s.animations[j].onFinish = 0
              /\ j > 1 => s.animations[j].elapsed = 0
              /\ s.animations[j].onStart = IF n + j = unit'.startedHead THEN 1 ELSE 0
         /\ ( /\ unit'.added = unit.added
              /\ unit'.started = unit.started
              /\ unit.it.animations # <<>> ) =>
              LET old == unit.it.animations
                  head == Head(old)
              IN \/ /\ s.popped = unit.it.popped
                    /\ Len(s.animations) = Len(old)
                    /\ Tail(s.animations) = Tail(old)
                    /\ \E dt \in Dts : s.animations[1] = AnimAdvance(head, dt)
                    /\ ~AnimIsFinished(s.animations[1])
                 \/ /\ s.animations = Tail(old)
                    /\ n = Len(unit.it.popped) + 1
                    /\ SubSeq(s.popped, 1, n - 1) = unit.it.popped
                    /\ s.popped[n].id = head.id
                    /\ \E dt \in Dts : AnimIsFinished(AnimAdvance(head, dt))
    ]_vars

\* After OnStart the first member was popped and the second, now head, has
\* been advanced without an OnStart call while a third waits.
C16_Witness ==
  /\ unit.class = "SequenceAnimation"
  /\ unit.started
  /\ unit.startedHead = 1
  /\ Len(unit.it.popped) = 1
  /\ Len(unit.it.animations) = 2
  /\ unit.it.animations[1].elapsed > 0
  /\ unit.it.animations[1].onStart = 0

\* The calls made on the members lst, each ticked already: Advance on every
\* member and, right after it, OnFinish and the removal if it is finished.
RECURSIVE CallsInOrder(_)
CallsInOrder(lst) ==
  IF lst = <<>> THEN <<>>
  ELSE LET a == Head(lst) IN
       (IF AnimIsFinished(a)
        THEN << <<"Advance", a.id>>, <<"OnFinish", a.id>>, <<"erase", a.id>> >>
        ELSE << <<"Advance", a.id>> >>) \o CallsInOrder(Tail(lst))

\* C17: ParallelAnimation::Advance(dt) advances every member once by dt, in
\* member order; a member finished after its tick gets OnFinish once and is
\* removed before the next member is ticked; the members left are the
\* unfinished ones, in order; and the declared objects and properties are at
\* all times the union of the declarations of every member ever added.
C17_ParallelAdvance ==
  [][ /\ unit'.it.objects = UNION { GetObjects(a) : a \in unit'.inserted }
      /\ \A o \in Objects :
           ParallelGetProperties(unit'.it, o) =
             UNION { GetProperties(a, o) : a \in unit'.inserted }
      /\ unit'.op = "Advance" =>
           LET old == unit.it.animations
               ticked == [ j \in 1..Len(old) |->
                             [ old[j] EXCEPT !.elapsed = @ + unit'.dt ] ]
           IN /\ unit'.it.log = CallsInOrder(ticked)
              /\ unit'.it.animations = SelectSeq(ticked, LAMBDA a : ~AnimIsFinished(a))
              /\ \A j \in 1..Len(unit'.it.animations) :
                   ~AnimIsFinished(unit'.it.animations[j])
              /\ unit'.it.objects = unit.it.objects
              /\ unit'.it.properties = unit.it.properties
    ]_vars

\* The last Advance finished and removed the first member, then ticked a
\* member that stays; the container still declares the removed member's object.
C17_Witness ==
  /\ unit.class = "ParallelAnimation"
  /\ unit.op = "Advance"
  /\ Len(unit.it.log) >= 4
  /\ unit.it.log[2][1] = "OnFinish"
  /\ unit.it.log[4][1] = "Advance"
  /\ unit.it.animations # <<>>
  /\ \E o \in unit.it.objects :
       \A j \in 1..Len(unit.it.animations) : o \notin GetObjects(unit.it.animations[j])

\* C18: no step shortens the chain or moves an animation to another group; a
\* member of a non-head group has no elapsed time, is left as it is by every
\* step and leaves the chain only by the eviction of a forced AddAnimation;
\* AddAnimation into a chain whose head group is empty inserts into that group.
C18_GroupsAreNeverRemoved ==
  [][ /\ Len(chain') >= Len(chain)
      /\ \A i \in Groups : \A j \in 1..Len(chain[i]) :
           \A i2 \in 1..Len(chain') : \A j2 \in 1..Len(chain'[i2]) :
             chain'[i2][j2].id = chain[i][j].id => i2 = i
      /\ \A i \in 2..Len(chain) : \A j \in 1..Len(chain[i]) :
           LET a == chain[i][j] IN
           /\ a.elapsed = 0
           /\ ~AnimIsFinished(a)
           /\ IF InChainNext(a.id)
              THEN \E j2 \in 1..Len(chain'[i]) : chain'[i][j2] = a
              ELSE /\ last'.op = "AddAnimation"
                   /\ last'.force
                   /\ a.id \in last'.evicted
      /\ (last'.op = "AddAnimation" /\ chain # <<>> /\ chain[1] = <<>>) =>
           /\ last'.placed = 1
           /\ ~last'.pushed
           /\ Len(chain') = Len(chain)
    ]_vars

\* AddAnimation inserted into a head group that was empty (nothing was
\* evicted and the added animation is alone in it) while a later group waits.
C18_Witness ==
  /\ last.op = "AddAnimation"
  /\ last.placed = 1
  /\ ~last.pushed
  /\ last.evicted = {}
  /\ Len(chain[1]) = 1
  /\ Len(chain) >= 2
  /\ chain[2] # <<>>

\* The positions in group i that a forced AddAnimation of animation evicts:
\* members that cannot be mixed with it and stand at or before no
\* non-interruptible member that cannot be mixed with it.
EvictedFrom(i, animation) ==
  { j \in 1..Len(chain[i]) :
      /\ ~CouldBeMixedWith(chain[i][j], animation)
      /\ \A m \in 1..j :
           ~CouldBeMixedWith(chain[i][m], animation) => chain[i][m].couldBeInterrupted }

C20_GroupShape ==
  \A i \in Groups :
    /\ Len(chain[i]) <= 2
    /\ Len(chain[i]) = 2 => (chain[i][1].couldBeMixed /\ ~chain[i][2].couldBeMixed)
    /\ chain[i] = <<>> => i = 1

\* The head group is empty and the next group holds two animations.
C20_Witness ==
  /\ Len(chain) >= 2
  /\ chain[1] = <<>>
  /\ Len(chain[2]) = 2

\* C21: whenever the property cache holds an entry the chain holds a group,
\* and AnimationExists is true for the object of every cached entry.
C21_CacheNeedsChain ==
  /\ (DOMAIN cache # {}) => (chain # <<>>)
  /\ \A k \in DOMAIN cache : AnimationExists(chain, cache, k[1])

\* Entries are cached while no animation is queued in any group.
C21_Witness ==
  /\ DOMAIN cache # {}
  /\ chain # <<>>
  /\ \A i \in Groups : chain[i] = <<>>

\* The identities queued in chain ch, and those of the calls named call in log.
IdsIn(ch) == UNION { { ch[i][j].id : j \in 1..Len(ch[i]) } : i \in 1..Len(ch) }
CallsOf(log, call) == SelectSeq(log, LAMBDA e : e[1] = call)

\* In log every Save follows a call named first on the same animation, every
\* erase follows the Save of the same animation, and every call named first
\* is followed by both; no call is logged twice.
RemovalsIn(log, first) ==
  /\ \A n \in 1..Len(log) :
       /\ log[n][1] = first =>
            /\ n + 2 <= Len(log)
            /\ log[n + 1] = <<"Save", log[n][2]>>
            /\ log[n + 2] = <<"erase", log[n][2]>>
       /\ log[n][1] = "Save" => (n > 1 /\ log[n - 1] = <<first, log[n][2]>>)
       /\ log[n][1] = "erase" => (n > 1 /\ log[n - 1] = <<"Save", log[n][2]>>)
  /\ \A n \in 1..Len(log) : \A m \in 1..(n - 1) : log[m] # log[n]

\* C22: AddAnimation puts the animation, which was not queued, at exactly one
\* place of the chain after exactly one OnStart call; an animation that left
\* the chain never returns and gets no further call; an animation leaves only
\* in Advance by OnFinish, snapshot, removal (without Interrupt), or in a
\* forced AddAnimation by Interrupt, snapshot, removal (without OnFinish);
\* Advance is called on queued head members only, once each; and AddAnimation
\* with force = FALSE keeps every queued animation and the cache.
C22_Lifecycle ==
  [][ LET log == last'.log
          n == Len(log)
      IN CASE last'.op = "AddAnimation" ->
                LET ids == IdsIn(chain)
                    erased == { e[2] : e \in { log[m] : m \in 1..(n - 2) } }
                IN /\ n >= 2
                   /\ last'.id \notin ids
                   /\ \A id \in ids : id < last'.id
                   /\ log[n - 1] = <<"OnStart", last'.id>>
                   /\ log[n] = <<"insert", last'.id>>
                   /\ \A m \in 1..(n - 2) :
                        /\ log[m][1] \in {"Interrupt", "Save", "erase"}
                        /\ log[m][2] \in ids
                        /\ last'.force
                   /\ RemovalsIn(log, "Interrupt")
                   /\ IdsIn(chain') = (ids \ erased) \cup {last'.id}
                   /\ Cardinality({ q \in (1..Len(chain')) \X (1..(MaxAdds + 1)) :
                                      /\ q[2] <= Len(chain'[q[1]])
                                      /\ chain'[q[1]][q[2]].id = last'.id }) = 1
                   /\ ~last'.force => cache' = cache
           [] last'.op = "Advance" ->
                LET ids == IdsIn(chain)
                    erased == { e[2] : e \in { log[m] : m \in 1..n } \cap
                                              ({"erase"} \X ids) }
                IN /\ \A m \in 1..n :
                        /\ log[m][1] \in {"Advance", "OnFinish", "Save", "erase"}
                        /\ log[m][2] \in ids
                   /\ RemovalsIn(log, "OnFinish")
                   /\ [ m \in 1..Len(CallsOf(log, "Advance")) |->
                          CallsOf(log, "Advance")[m][2] ] =
                        IF chain = <<>> THEN <<>> ELSE IdsOf(chain[1])
                   /\ IdsIn(chain') = ids \ erased
           [] OTHER -> chain' = chain /\ log = <<>>
    ]_vars

\* A forced AddAnimation interrupted one queued animation and took a place.
C22_Witness ==
  /\ last.op = "AddAnimation"
  /\ Len(last.log) = 5
  /\ last.log[1][1] = "Interrupt"
  /\ last.log[4] = <<"OnStart", last.id>>
  /\ InChain(last.id)
  /\ ~InChain(last.log[1][2])

====
